---- MODULE Spec2Model ----
(***************************************************************************)
(* The contact-form endpoint of api/send-email.js: the in-memory rate      *)
(* limiter, the guard pipeline of the handler and its relay call.          *)
(*                                                                         *)
(* One JavaScript task runs to completion at a time.  The handler has two  *)
(* suspension points (await fetch, await response.json()), so a request is *)
(* served by up to three tasks: the synchronous part of handler, the       *)
(* continuation after fetch settles and the one after json() settles.      *)
(* `task` is the record of the task that has just run; ReturnToEventLoop   *)
(* gives control back to the event loop.                                   *)
(*                                                                         *)
(* The body fields phone and service only feed the text of the relay       *)
(* message and are not modelled.                                           *)
(***************************************************************************)
EXTENDS Integers, Sequences, FiniteSets, Bags

\* ---------------------------------------------------------------- bounds
\* Date.now() when the process starts (milliseconds).
Epoch == 100000
\* The clock covers the window boundaries Epoch + k * RATE_LIMIT_WINDOW, k <= MaxWindows.
MaxWindows == 1
\* A source address is served while its entry's count is below MaxCount.
MaxCount == 5
\* Requests awaiting the relay at the same time.
MaxInflight == 2

\* ------------------------------------------------------------- constants
RATE_LIMIT_WINDOW == 60 * 1000
RATE_LIMIT_MAX == 3
MIN_SUBMIT_TIME == 3000

\* ------------------------------------------------------ JavaScript values
\* A value is undefined, a string (a sequence of characters), a number or NaN.
Undefined == [t |-> "undefined", s |-> <<>>, n |-> 0]
Str(chars) == [t |-> "string", s |-> chars, n |-> 0]
Num(k) == [t |-> "number", s |-> <<>>, n |-> k]
NaN == [t |-> "nan", s |-> <<>>, n |-> 0]

\* ToBoolean: undefined, "", 0 and NaN are falsy.
Truthy(v) ==
    CASE v.t = "undefined" -> FALSE
      [] v.t = "string" -> v.s # <<>>
      [] v.t = "number" -> v.n # 0
      [] OTHER -> FALSE

\* a || b
Or(a, b) == IF Truthy(a) THEN a ELSE b

Digits == <<"0", "1", "2", "3", "4", "5", "6", "7", "8", "9">>
Whitespace == {" ", "\n", "\t"}

RECURSIVE DigitsOf(_)
DigitsOf(k) ==
    IF k < 10 THEN <<Digits[k + 1]>> ELSE DigitsOf(k \div 10) \o <<Digits[(k % 10) + 1]>>

\* String(v) for the values above.
JsString(v) ==
    CASE v.t = "string" -> v.s
      [] v.t = "number" -> IF v.n < 0 THEN <<"-">> \o DigitsOf(0 - v.n) ELSE DigitsOf(v.n)
      [] v.t = "nan" -> <<"N", "a", "N">>
      [] OTHER -> <<"u", "n", "d", "e", "f", "i", "n", "e", "d">>

DigitValue(c) == CHOOSE d \in 0..9 : Digits[d + 1] = c
IsDigit(c) == \E d \in 0..9 : Digits[d + 1] = c

RECURSIVE SkipWhitespace(_)
SkipWhitespace(chars) ==
    IF chars # <<>> /\ Head(chars) \in Whitespace THEN SkipWhitespace(Tail(chars)) ELSE chars

\* The value of the longest prefix of decimal digits, continuing from acc.
RECURSIVE DigitPrefix(_, _)
DigitPrefix(chars, acc) ==
    IF chars # <<>> /\ IsDigit(Head(chars))
    THEN DigitPrefix(Tail(chars), 10 * acc + DigitValue(Head(chars)))
    ELSE acc

\* parseInt(v, 10): leading whitespace, an optional sign, then decimal digits;
\* NaN when no digit follows.
parseInt(v) ==
    LET trimmed == SkipWhitespace(JsString(v))
        signed == trimmed # <<>> /\ Head(trimmed) \in {"-", "+"}
        rest == IF signed THEN Tail(trimmed) ELSE trimmed
    IN  IF rest = <<>> \/ ~IsDigit(Head(rest))
        THEN NaN
        ELSE IF signed /\ Head(trimmed) = "-"
             THEN Num(0 - DigitPrefix(rest, 0))
             ELSE Num(DigitPrefix(rest, 0))

\* a - b and a < b on numbers; NaN propagates and compares false.
Minus(a, b) == IF a.t = "nan" \/ b.t = "nan" THEN NaN ELSE Num(a.n - b.n)
LessThan(a, b) == a.t # "nan" /\ b.t # "nan" /\ a.n < b.n

\* /^[^\s@]+@[^\s@]+\.[^\s@]+$/.test(v)
emailRegexTest(v) ==
    LET str == JsString(v)
        len == Len(str)
    IN  \E p \in 1..len : \E q \in 1..len :
          /\ str[p] = "@"
          /\ str[q] = "."
          /\ 1 < p
          /\ p + 1 < q
          /\ q < len
          /\ \A i \in 1..len : i # p => str[i] \notin (Whitespace \cup {"@"})

\* ------------------------------------------------------------ rate limiter
\* rateLimit is the Map: a function whose domain is the set of keys present.
EmptyMap == [k \in {} |-> [windowStart |-> 0, count |-> 0]]

MapSet(map, key, entry) ==
    [k \in (DOMAIN map) \cup {key} |-> IF k = key THEN entry ELSE map[k]]

\* Fault: the window also counts as expired at exactly RATE_LIMIT_WINDOW.
windowExpiredAtOrAfter(map, ip, t) ==
    ip \notin DOMAIN map \/ t - map[ip].windowStart >= RATE_LIMIT_WINDOW

\* !entry || now - entry.windowStart > RATE_LIMIT_WINDOW
windowExpired(map, ip, t) ==
    ip \notin DOMAIN map \/ t - map[ip].windowStart > RATE_LIMIT_WINDOW

\* Fault: one request too many passes.
overLimitOffByOne(count) == count > RATE_LIMIT_MAX + 1

\* entry.count > RATE_LIMIT_MAX, after entry.count++
overLimit(count) == count > RATE_LIMIT_MAX

\* Fault: a rejected request restarts the window.
isRateLimitedSliding(map, ip, t) ==
    IF windowExpired(map, ip, t)
    THEN [limited |-> FALSE, map |-> MapSet(map, ip, [windowStart |-> t, count |-> 1])]
    ELSE LET incremented == MapSet(map, ip, [map[ip] EXCEPT !.count = @ + 1])
         IN  IF overLimit(incremented[ip].count)
             THEN [limited |-> TRUE,
                   map |-> MapSet(map, ip, [incremented[ip] EXCEPT !.windowStart = t])]
             ELSE [limited |-> FALSE, map |-> incremented]

\* Fault: a request over the limit is rejected before it is counted.
isRateLimitedNoCountWhenFull(map, ip, t) ==
    IF windowExpired(map, ip, t)
    THEN [limited |-> FALSE, map |-> MapSet(map, ip, [windowStart |-> t, count |-> 1])]
    ELSE IF map[ip].count >= RATE_LIMIT_MAX
         THEN [limited |-> TRUE, map |-> map]
         ELSE [limited |-> FALSE,
               map |-> MapSet(map, ip, [map[ip] EXCEPT !.count = @ + 1])]

\* isRateLimited(ip) called when Date.now() is t: the value returned and the
\* map it leaves behind.
isRateLimited(map, ip, t) ==
    IF windowExpired(map, ip, t)
    THEN [limited |-> FALSE, map |-> MapSet(map, ip, [windowStart |-> t, count |-> 1])]
    ELSE LET incremented == MapSet(map, ip, [map[ip] EXCEPT !.count = @ + 1])
         IN  [limited |-> overLimit(incremented[ip].count), map |-> incremented]

\* --------------------------------------------------------------- responses
NoDetails == [given |-> FALSE, name |-> FALSE, email |-> FALSE, message |-> FALSE]

Response(status, error, success, id, details) ==
    [status |-> status, error |-> error, success |-> success, id |-> id,
     details |-> details]

NoResponse == Response(0, "", FALSE, Undefined, NoDetails)
MethodNotAllowed == Response(405, "Method not allowed", FALSE, Undefined, NoDetails)
TooManyRequests ==
    Response(429, "Too many requests. Please try again later.", FALSE, Undefined, NoDetails)
SilentAccept == Response(200, "", TRUE, Undefined, NoDetails)
MissingFields(body) ==
    Response(400, "Missing required fields", FALSE, Undefined,
             [given |-> TRUE, name |-> Truthy(body.name), email |-> Truthy(body.email),
              message |-> Truthy(body.message)])
InvalidEmail == Response(400, "Invalid email format", FALSE, Undefined, NoDetails)
RelayFailed == Response(500, "Failed to send email", FALSE, Undefined, NoDetails)
ServerError == Response(500, "Server error", FALSE, Undefined, NoDetails)
Sent(id) == Response(200, "", TRUE, id, NoDetails)

\* ----------------------------------------------------------------- handler
\* req.headers['x-forwarded-for'] || req.headers['x-real-ip'] || 'unknown'
Unknown == Str(<<"u", "n", "k", "n", "o", "w", "n">>)
SourceAddress(req) == JsString(Or(Or(req.xff, req.xri), Unknown))

\* const body = req.body || {}: the fields of a missing body are undefined.
NoBody ==
    [present |-> FALSE, website |-> Undefined, timestamp |-> Undefined,
     name |-> Undefined, email |-> Undefined, message |-> Undefined]

\* Fault: the honeypot check is missing.
honeypotNever(body) == FALSE

\* if (website)

honeypot(body) == Truthy(body.website)

\* Fault: a submission after exactly MIN_SUBMIT_TIME counts as too fast.
tooFastInclusive(body, t) ==
    /\ Truthy(body.timestamp)
    /\ LessThan(Minus(Num(t), parseInt(body.timestamp)), Num(MIN_SUBMIT_TIME + 1))

\* if (timestamp) { submitTime = Date.now() - parseInt(timestamp, 10);
\*                  if (submitTime < MIN_SUBMIT_TIME) ... }, Date.now() being t

tooFast(body, t) ==
    /\ Truthy(body.timestamp)
    /\ LessThan(Minus(Num(t), parseInt(body.timestamp)), Num(MIN_SUBMIT_TIME))

\* if (!name || !email || !message)
missingRequired(body) ==
    ~Truthy(body.name) \/ ~Truthy(body.email) \/ ~Truthy(body.message)

\* message.replace(/\n/g, '<br>') while the relay message is built: a truthy
\* message that is no string has no replace method, and the call throws.
buildThrows(body) == body.message.t # "string"

\* What a task did: the events in order, the response sent (NoResponse when the
\* task ended at an await) and whether the request now awaits the relay.
Outcome(events, res, awaits) == [events |-> events, res |-> res, awaits |-> awaits]

\* Fault: the required fields are validated before the bot checks.
pipelineFieldsFirst(body, t) ==
    IF missingRequired(body)
    THEN Outcome(<<"console.error", "respond">>, MissingFields(body), FALSE)
    ELSE IF honeypot(body) \/ tooFast(body, t)
    THEN Outcome(<<"respond">>, SilentAccept, FALSE)
    ELSE IF ~emailRegexTest(body.email)
    THEN Outcome(<<"respond">>, InvalidEmail, FALSE)
    ELSE IF buildThrows(body)
    THEN Outcome(<<"console.error", "respond">>, ServerError, FALSE)
    ELSE Outcome(<<"fetch">>, NoResponse, TRUE)

\* Fault: missing fields are not logged.
pipelineQuietValidation(body, t) ==
    IF honeypot(body) \/ tooFast(body, t)
    THEN Outcome(<<"respond">>, SilentAccept, FALSE)
    ELSE IF missingRequired(body)
    THEN Outcome(<<"respond">>, MissingFields(body), FALSE)
    ELSE IF ~emailRegexTest(body.email)
    THEN Outcome(<<"respond">>, InvalidEmail, FALSE)
    ELSE IF buildThrows(body)
    THEN Outcome(<<"console.error", "respond">>, ServerError, FALSE)
    ELSE Outcome(<<"fetch">>, NoResponse, TRUE)

\* The handler from the honeypot check to the start of the relay call
\* (lines 36-92); t is Date.now() at the timing check.
pipeline(body, t) ==
    IF honeypot(body)
    THEN Outcome(<<"respond">>, SilentAccept, FALSE)
    ELSE IF tooFast(body, t)
    THEN Outcome(<<"respond">>, SilentAccept, FALSE)
    ELSE IF missingRequired(body)
    THEN Outcome(<<"console.error", "respond">>, MissingFields(body), FALSE)
    ELSE IF ~emailRegexTest(body.email)
    THEN Outcome(<<"respond">>, InvalidEmail, FALSE)
    ELSE IF buildThrows(body)
    THEN Outcome(<<"console.error", "respond">>, ServerError, FALSE)
    ELSE Outcome(<<"fetch">>, NoResponse, TRUE)

\* The synchronous part of handler(req, res), lines 24-92: t1 is Date.now() in
\* isRateLimited, t2 is Date.now() at the timing check.
handlerSync(req, map, t1, t2) ==
    IF req.method # "POST"
    THEN [map |-> map, out |-> Outcome(<<"respond">>, MethodNotAllowed, FALSE)]
    ELSE LET lim == isRateLimited(map, SourceAddress(req), t1)
         IN  IF lim.limited
             THEN [map |-> lim.map, out |-> Outcome(<<"respond">>, TooManyRequests, FALSE)]
             ELSE [map |-> lim.map,
                   out |-> pipeline(IF req.body.present THEN req.body ELSE NoBody, t2)]

\* The continuation after `await fetch(...)` (line 70): fetch rejects on a
\* transport failure ("rejected"), else it resolves to a response whose ok flag
\* is set ("ok") or not ("notok"), and the handler awaits response.json().
afterFetch(settled) ==
    IF settled = "rejected"
    THEN Outcome(<<"console.error", "respond">>, ServerError, FALSE)
    ELSE Outcome(<<>>, NoResponse, TRUE)

\* What response.json() settles to: it rejects on an unreadable reply
\* ("throws"), else it resolves to the parsed reply, an object whose id may be
\* undefined or null.
Reply(parse, id) == [parse |-> parse, id |-> id]
NoReply == Reply("none", Undefined)

\* Fault: a failed relay call is made again.
afterJsonRetry(ok, reply) ==
    IF reply.parse = "throws"
    THEN Outcome(<<"console.error", "respond">>, ServerError, FALSE)
    ELSE IF ~ok
    THEN Outcome(<<"console.error", "fetch">>, NoResponse, TRUE)
    ELSE IF reply.parse = "null"
    THEN Outcome(<<"console.error", "respond">>, ServerError, FALSE)
    ELSE Outcome(<<"respond">>, Sent(reply.id), FALSE)

\* Fault: response.ok is not looked at.
afterJsonIgnoreOk(ok, reply) ==
    IF reply.parse \in {"throws", "null"}
    THEN Outcome(<<"console.error", "respond">>, ServerError, FALSE)
    ELSE Outcome(<<"respond">>, Sent(reply.id), FALSE)

\* The continuation after `await response.json()` (lines 94-105); reading
\* data.id of a null reply throws a TypeError inside the try block.
afterJson(ok, reply) ==
    IF reply.parse = "throws"
    THEN Outcome(<<"console.error", "respond">>, ServerError, FALSE)
    ELSE IF ~ok
    THEN Outcome(<<"console.error", "respond">>, RelayFailed, FALSE)
    ELSE IF reply.parse = "null"
    THEN Outcome(<<"console.error", "respond">>, ServerError, FALSE)
    ELSE Outcome(<<"respond">>, Sent(reply.id), FALSE)

\* ------------------------------------------------------------------- state
VARIABLES
    now,        \* Date.now()
    rateLimit,  \* the module-level Map: address -> {windowStart, count}
    pending,    \* the bag of requests suspended at an await
    task,       \* the task that has just run (Idle: back in the event loop)
    audit       \* per address, the current window as the requests define it

vars == <<now, rateLimit, pending, task, audit>>

\* A suspended request: where it waits ("fetch" or "json"), response.ok once
\* fetch has resolved, and the relay calls it has made.
Suspended(pc, ok, calls) == [pc |-> pc, ok |-> ok, calls |-> calls]

\* The instants the clock visits: each window boundary and the millisecond after.
Instants == {Epoch + k * RATE_LIMIT_WINDOW + j : k \in 0..MaxWindows, j \in 0..1}

Inflight == BagCardinality(pending)

Count(events, e) == Cardinality({i \in 1..Len(events) : events[i] = e})

\* ------------------------------------------------------------------ inputs
\* The address headers: a client address, and a proxy that reports "unknown".
Forwarded == Str(<<"1", "0", ".", "1">>)
RealIp == Unknown

Websites == {Str(<<>>), Str(<<"x">>)}
Names == {Undefined, Str(<<"A">>)}
Emails ==
    {Undefined, Str(<<"a", "b">>), Str(<<"a", "@", "b">>),
     Str(<<"a", "@", "b", ".", "c">>), Str(<<"a", " ", "b", "@", "c", ".", "d">>)}
Messages == {Str(<<>>), Str(<<"h", "i", "\n">>), Num(5)}
\* Timestamps around the threshold at instant t, as the form sends them
\* (strings) and as numbers, one in the future and one that is no number.
Timestamps(t) ==
    {Undefined, Str(DigitsOf(t - MIN_SUBMIT_TIME)), Str(DigitsOf(t - MIN_SUBMIT_TIME + 1)),
     Num(t + 1), Str(<<"a", "b", "c">>)}

Bodies(t) ==
    {NoBody} \cup
    [present : {TRUE}, website : Websites, timestamp : Timestamps(t), name : Names,
     email : Emails, message : Messages]

NoRequest == [method |-> "", xff |-> Undefined, xri |-> Undefined, body |-> NoBody]

\* The requests of the guard pipeline: every body, from one address.
Requests(t) ==
    [method : {"GET", "POST"}, xff : {Undefined}, xri : {Undefined}, body : Bodies(t)]

\* The requests of the rate limiter: a valid submission, a honeypot hit and a
\* submission with no fields, from every combination of the address headers.
RateBodies ==
    {NoBody,
     [NoBody EXCEPT !.present = TRUE, !.website = Str(<<"x">>)],
     [NoBody EXCEPT !.present = TRUE, !.name = Str(<<"A">>),
                    !.email = Str(<<"a", "@", "b", ".", "c">>),
                    !.message = Str(<<"h", "i", "\n">>)]}

RateRequests ==
    [method : {"POST"}, xff : {Undefined, Forwarded}, xri : {Undefined, RealIp},
     body : RateBodies]
    \cup [method : {"GET"}, xff : {Forwarded}, xri : {Undefined}, body : {NoBody}]

\* ----------------------------------------------------------------- actions
\* The entry rateLimit.get(ip) returned to the task, if any.
NoEntry == [has |-> FALSE, windowStart |-> 0, count |-> 0]
Got(map, ip) ==
    IF ip \in DOMAIN map
    THEN [has |-> TRUE, windowStart |-> map[ip].windowStart, count |-> map[ip].count]
    ELSE NoEntry

Idle ==
    [kind |-> "idle", req |-> NoRequest, t1 |-> 0, t2 |-> 0, prior |-> NoEntry,
     settled |-> "none", reply |-> NoReply, events |-> <<>>, res |-> NoResponse,
     calls |-> 0, awaits |-> FALSE]

Init ==
    /\ now = Epoch
    /\ rateLimit = EmptyMap
    /\ pending = EmptyBag
    /\ task = Idle
    /\ audit = [k \in {} |-> [open |-> 0, nth |-> 0, passed |-> 0]]

\* The window of an address as the requests define it: the first POST opens it,
\* a POST more than RATE_LIMIT_WINDOW after its opening opens the next one.
Audited(aud, ip, t, passed) ==
    LET fresh == ip \notin DOMAIN aud \/ t - aud[ip].open > RATE_LIMIT_WINDOW
        p == IF passed THEN 1 ELSE 0
    IN  MapSet(aud, ip,
               IF fresh
               THEN [open |-> t, nth |-> 1, passed |-> p]
               ELSE [open |-> aud[ip].open, nth |-> aud[ip].nth + 1,
                     passed |-> aud[ip].passed + p])

\* The event loop runs handler(req, res) up to its first await or its return.
Handler(req, t2, inflight) ==
    LET ip == SourceAddress(req)
        run == handlerSync(req, rateLimit, now, t2)
        post == req.method = "POST"
        calls == Count(run.out.events, "fetch")
    IN  /\ task.kind = "idle"
        /\ run.out.awaits => Inflight < inflight
        /\ rateLimit' = run.map
        /\ now' = t2
        /\ audit' = IF post
                    THEN Audited(audit, ip, now, run.out.res.status # 429)
                    ELSE audit
        /\ pending' = IF run.out.awaits
                      THEN pending (+) SetToBag({Suspended("fetch", FALSE, calls)})
                      ELSE pending
        /\ task' = [Idle EXCEPT !.kind = "handler", !.req = req, !.t1 = now, !.t2 = t2,
                      !.prior = IF post THEN Got(rateLimit, ip) ELSE NoEntry,
                      !.events = run.out.events, !.res = run.out.res,
                      !.awaits = run.out.awaits, !.calls = calls]

\* A task that resumes the suspended request p with outcome out.
Resume(p, kind, settled, reply, ok, out) ==
    LET calls == p.calls + Count(out.events, "fetch")
        pc == IF Count(out.events, "fetch") > 0 THEN "fetch" ELSE "json"
    IN  /\ pending' = IF out.awaits
                      THEN (pending (-) SetToBag({p})) (+) SetToBag({Suspended(pc, ok, calls)})
                      ELSE pending (-) SetToBag({p})
        /\ task' = [Idle EXCEPT !.kind = kind, !.t1 = now, !.t2 = now,
                      !.settled = settled, !.reply = reply, !.events = out.events,
                      !.res = out.res, !.calls = calls, !.awaits = out.awaits]
        /\ UNCHANGED <<now, rateLimit, audit>>

\* The relay call of the suspended request p settles.
FetchSettles(p, settled) ==
    /\ task.kind = "idle"
    /\ p.pc = "fetch"
    /\ Resume(p, "fetch", settled, NoReply, settled = "ok", afterFetch(settled))

\* response.json() of the suspended request p settles.
JsonSettles(p, reply) ==
    /\ task.kind = "idle"
    /\ p.pc = "json"
    /\ Resume(p, "json", IF p.ok THEN "ok" ELSE "notok", reply, p.ok, afterJson(p.ok, reply))

\* The task ends and control is back in the event loop.
ReturnToEventLoop ==
    /\ task.kind # "idle"
    /\ task' = Idle
    /\ UNCHANGED <<now, rateLimit, pending, audit>>

\* Time passes between two tasks.
Tick(t) ==
    /\ task.kind = "idle"
    /\ t > now
    /\ now' = t
    /\ UNCHANGED <<rateLimit, pending, task, audit>>

Replies ==
    {Reply("throws", Undefined), Reply("null", Undefined), Reply("object", Undefined),
     Reply("object", Str(<<"a", "b", "c", "1", "2", "3">>))}

\* Date.now() at the timing check, read when the body carries a timestamp: the
\* clock may have advanced by a millisecond since isRateLimited read it.
SecondReading(req) ==
    IF Truthy(req.body.timestamp)
    THEN {t \in Instants : now <= t /\ t <= now + 1}
    ELSE {now}

\* A request arrives while the event loop is idle: at most `inflight` requests
\* await the relay and the address's count is below `cap`.
Serve(reqs, inflight, cap) ==
    /\ task.kind = "idle"
    /\ \E req \in reqs : \E t2 \in SecondReading(req) :
          /\ req.method = "POST" /\ SourceAddress(req) \in DOMAIN rateLimit
                => rateLimit[SourceAddress(req)].count < cap
          /\ Handler(req, t2, inflight)

Settle ==
    /\ task.kind = "idle"
    /\ \E p \in BagToSet(pending) :
          \/ \E settled \in {"rejected", "ok", "notok"} : FetchSettles(p, settled)
          \/ \E reply \in Replies : JsonSettles(p, reply)

Pass(instants) ==
    /\ task.kind = "idle"
    /\ \E t \in instants : Tick(t)

\* The guard pipeline: every body from one address, within the first window.
Next ==
    \/ Serve(Requests(now), MaxInflight - 1, MaxCount - 1)
    \/ Settle
    \/ ReturnToEventLoop
    \/ Pass({Epoch, Epoch + 1})

Spec == Init /\ [][Next]_vars

\* The rate limiter: a few bodies from every address, across the windows.
NextRate ==
    \/ Serve(RateRequests, MaxInflight, MaxCount)
    \/ Settle
    \/ ReturnToEventLoop
    \/ Pass(Instants)

SpecRate == Init /\ [][NextRate]_vars

\* ------------------------------------------------------------- properties
\* What the properties say about the request of the task that has just run,
\* stated on the request itself.
Handled == task.kind = "handler"
Posted == Handled /\ task.req.method = "POST"
Address == SourceAddress(task.req)
Body == task.req.body
Logged == Count(task.events, "console.error") > 0
RelayCalled == Count(task.events, "fetch") > 0

\* A field counts as filled when it is a non-empty string or a non-zero number.
Filled(v) == (v.t = "string" /\ Len(v.s) > 0) \/ (v.t = "number" /\ v.n # 0)

\* The request is the n-th POST of its address in the current window, n > RATE_LIMIT_MAX.
OverQuota == audit[Address].nth > RATE_LIMIT_MAX

\* The instants a timestamp of the inputs can denote, and the one it denotes.
Stamps == {t + d : t \in Instants, d \in {0 - MIN_SUBMIT_TIME, 1 - MIN_SUBMIT_TIME, 1}}
Denotes(v, k) == v = Num(k) \/ v = Str(DigitsOf(k))
ElapsedBelow == \E k \in Stamps : Denotes(Body.timestamp, k) /\ task.t2 - k < MIN_SUBMIT_TIME
ElapsedAtLeast == \E k \in Stamps : Denotes(Body.timestamp, k) /\ task.t2 - k >= MIN_SUBMIT_TIME

AllFilled == Filled(Body.name) /\ Filled(Body.email) /\ Filled(Body.message)
\* The well-formed addresses among Emails.
WellFormed == Body.email = Str(<<"a", "@", "b", ".", "c">>)

PassesAllGuards ==
    /\ Posted
    /\ ~OverQuota
    /\ ~Filled(Body.website)
    /\ ~ElapsedBelow
    /\ AllFilled
    /\ WellFormed

\* C1: within one window (RATE_LIMIT_WINDOW counted from the windowStart set by
\* the request that opened it) the first RATE_LIMIT_MAX POSTs of an address pass
\* the rate-limit guard and every later one is answered 429; the first POST
\* after the window has elapsed finds a fresh entry with count 1 and passes;
\* the entry's windowStart is the instant of the request that opened the window,
\* whatever was rejected since.
C1_WindowQuota ==
    Posted =>
        /\ (task.res.status = 429) <=> OverQuota
        /\ rateLimit[Address].windowStart = audit[Address].open
        /\ rateLimit[Address].count = audit[Address].nth
        /\ audit[Address].nth = 1 =>
              /\ rateLimit[Address] = [windowStart |-> task.t1, count |-> 1]
              /\ task.res.status # 429

\* The fifth POST of the second window of an address is rejected.
C1_Witness ==
    /\ Posted
    /\ task.res = TooManyRequests
    /\ audit[Address].nth = MaxCount
    /\ audit[Address].open > Epoch + RATE_LIMIT_WINDOW

\* C2: a request calls the relay at most once, also after a relay failure, and
\* only after passing every guard; a request answered 405, 429, 400 or
\* silently accepted by the handler made no relay call.
C2_RelayAtMostOnce ==
    /\ task.calls <= 1
    /\ \A p \in BagToSet(pending) : p.calls = 1
    /\ Handled /\ RelayCalled => PassesAllGuards
    /\ Handled /\ (task.res.status \in {405, 429, 400} \/ task.res = SilentAccept)
          => ~RelayCalled /\ task.calls = 0 /\ ~task.awaits

\* The relay reported a failure: the request ends with its single call.
C2_Witness ==
    /\ task.kind = "json"
    /\ task.settled = "notok"
    /\ task.res = RelayFailed
    /\ task.calls = 1
    /\ ~task.awaits

\* C3: the response is that of the first failing guard in the order method,
\* rate limit, honeypot, timing, required fields, email format.
C3_FirstFailingGuard ==
    Handled =>
        IF task.req.method # "POST" THEN task.res = MethodNotAllowed
        ELSE IF OverQuota THEN task.res = TooManyRequests
        ELSE IF Filled(Body.website) THEN task.res = SilentAccept
        ELSE IF ElapsedBelow THEN task.res = SilentAccept
        ELSE IF ~AllFilled
        THEN task.res = Response(400, "Missing required fields", FALSE, Undefined,
                                 [given |-> TRUE, name |-> Filled(Body.name),
                                  email |-> Filled(Body.email),
                                  message |-> Filled(Body.message)])
        ELSE IF ~WellFormed THEN task.res = InvalidEmail
        ELSE task.res.status \notin {405, 429, 400} /\ task.res # SilentAccept

\* A filled honeypot with missing fields is silently accepted, not rejected.
C3_Witness ==
    /\ Posted
    /\ ~OverQuota
    /\ Filled(Body.website)
    /\ ~Filled(Body.name)
    /\ ~Filled(Body.message)
    /\ task.res = SilentAccept

\* C4: a POST that passes the rate-limit guard with a filled website field is
\* answered 200 {success: true} without an id and without a relay call,
\* whatever its other fields.
C4_Honeypot ==
    Posted /\ ~OverQuota /\ Filled(Body.website) =>
        /\ task.res.status = 200
        /\ task.res.success
        /\ task.res.id = Undefined
        /\ task.res.error = ""
        /\ ~RelayCalled
        /\ ~task.awaits
        /\ task.calls = 0

\* A filled honeypot on an otherwise valid submission.
C4_Witness ==
    /\ Posted
    /\ ~OverQuota
    /\ Filled(Body.website)
    /\ AllFilled
    /\ WellFormed
    /\ Body.timestamp = Undefined
    /\ task.res = SilentAccept

\* C5: at the timing guard, a timestamp less than MIN_SUBMIT_TIME before
\* Date.now() (or after it) gives 200 {success: true} and no relay call; one at
\* least MIN_SUBMIT_TIME before, or none, sends the request on to validation.
C5_TimingGuard ==
    Posted /\ ~OverQuota /\ ~Filled(Body.website) =>
        /\ ElapsedBelow => task.res = SilentAccept /\ ~RelayCalled /\ ~task.awaits
        /\ ElapsedAtLeast \/ Body.timestamp = Undefined =>
              /\ task.res # SilentAccept
              /\ ~AllFilled => task.res.status = 400 /\ task.res.details.given
              /\ AllFilled /\ ~WellFormed => task.res = InvalidEmail
              /\ AllFilled /\ WellFormed /\ Body.message.t = "string" => RelayCalled

\* A valid submission one millisecond short of the threshold.
C5_Witness ==
    /\ Posted
    /\ ~OverQuota
    /\ ~Filled(Body.website)
    /\ AllFilled
    /\ WellFormed
    /\ Denotes(Body.timestamp, task.t2 - MIN_SUBMIT_TIME + 1)
    /\ task.res = SilentAccept

\* A task ends its request with exactly one response, sent last, or suspends it
\* without one.
OneResponse ==
    task.kind # "idle" =>
        IF task.awaits
        THEN Count(task.events, "respond") = 0 /\ task.res = NoResponse
        ELSE /\ Count(task.events, "respond") = 1
             /\ task.events[Len(task.events)] = "respond"
             /\ task.res # NoResponse

\* The response follows the relay's outcome, once the relay call has settled.
RelayDecides ==
    /\ task.kind = "fetch" =>
          IF task.settled = "rejected" THEN task.res = ServerError ELSE task.awaits
    /\ task.kind = "json" =>
          /\ task.reply.parse = "throws" => task.res = ServerError
          /\ task.reply.parse # "throws" /\ task.settled = "notok" => task.res = RelayFailed
          /\ task.reply.parse = "object" /\ task.settled = "ok" =>
                task.res = Response(200, "", TRUE, task.reply.id, NoDetails)

\* C6 as stated: every request that passes all guards is answered from the
\* relay's outcome, after the relay call has settled: 200 with the relay's id
\* on success, 500 'Failed to send email' on failure, 500 'Server error' when
\* the call throws; one response, no exception escapes.
C6_AsStated ==
    /\ OneResponse
    /\ RelayDecides
    /\ PassesAllGuards => task.awaits /\ task.events = <<"fetch">>
    /\ task.kind = "json" /\ task.settled = "ok" /\ task.reply.parse # "throws"
          => task.res.status = 200

\* C6 amended: a request that passes all guards with a message that is a
\* string is suspended on a single relay call and answered once it has
\* settled: 200 with the reply's id when the relay reports success with a
\* reply object, 500 'Failed to send email' when it reports failure with a
\* readable reply, 500 'Server error' when fetch or json() rejects or the
\* reply of a successful call is null; a request that passes all guards with a
\* message that is no string is answered 500 'Server error' with no relay
\* call.  One response, sent last.
C6_RelayOutcome ==
    /\ OneResponse
    /\ RelayDecides
    /\ PassesAllGuards /\ Body.message.t = "string"
          => task.awaits /\ task.events = <<"fetch">>
    /\ PassesAllGuards /\ Body.message.t # "string"
          => task.res = ServerError /\ ~RelayCalled /\ ~task.awaits
    /\ task.kind = "json" /\ task.settled = "ok" /\ task.reply.parse = "null"
          => task.res = ServerError

\* The relay accepted the message and the response carries its id.
C6_Witness ==
    /\ task.kind = "json"
    /\ task.settled = "ok"
    /\ task.reply.id = Str(<<"a", "b", "c", "1", "2", "3">>)
    /\ task.res.status = 200
    /\ task.res.id = task.reply.id

\* C7 as stated: every response 405, 429, 400 or 500 comes after an error log
\* entry, and the two silent accepts write none.
C7_AsStated ==
    /\ task.res.status \in {405, 429, 400, 500} => task.events = <<"console.error", "respond">>
    /\ Handled /\ task.res = SilentAccept => ~Logged

\* C7 amended: the responses 400 'Missing required fields', 500 'Failed to send
\* email' and 500 'Server error' come after an error log entry; 405, 429,
\* 400 'Invalid email format' and the two silent accepts write none.
C7_LoggedErrors ==
    /\ task.res.status = 500 \/ (task.res.status = 400 /\ task.res.details.given)
          => task.events = <<"console.error", "respond">>
    /\ task.res \in {MethodNotAllowed, TooManyRequests, InvalidEmail} => ~Logged
    /\ Handled /\ task.res = SilentAccept => ~Logged

\* Missing fields are logged before the 400 is sent.
C7_Witness ==
    /\ Posted
    /\ task.res.status = 400
    /\ task.res.details.given
    /\ ~task.res.details.email
    /\ task.events = <<"console.error", "respond">>

\* The entry the request found had been opened at least / more than / exactly
\* RATE_LIMIT_WINDOW before.
FoundAfter(d) == Posted /\ task.prior.has /\ task.t1 - task.prior.windowStart >= d
Reset == rateLimit[Address] = [windowStart |-> task.t1, count |-> 1]

\* C8 as stated: an entry whose window started RATE_LIMIT_WINDOW or more ago is
\* reset to a fresh window with count 1 and the request passes the guard.
C8_AsStated == FoundAfter(RATE_LIMIT_WINDOW) => Reset /\ task.res.status # 429

\* C8 amended: an entry's window is expired when more than RATE_LIMIT_WINDOW has
\* elapsed since windowStart: the request resets the entry to a fresh window
\* with count 1 and passes, also when the quota had been exhausted.  A request
\* exactly RATE_LIMIT_WINDOW after windowStart still counts in the old window.
C8_StrictExpiry ==
    /\ FoundAfter(RATE_LIMIT_WINDOW + 1) => Reset /\ task.res.status # 429
    /\ FoundAfter(0) /\ ~FoundAfter(RATE_LIMIT_WINDOW + 1) =>
          /\ rateLimit[Address] =
                [windowStart |-> task.prior.windowStart, count |-> task.prior.count + 1]
          /\ (task.res.status = 429) <=> (task.prior.count >= RATE_LIMIT_MAX)

\* An exhausted entry is reset by the first request after the window.
C8_Witness ==
    /\ FoundAfter(RATE_LIMIT_WINDOW + 1)
    /\ task.prior.count > RATE_LIMIT_MAX
    /\ Reset
    /\ task.res.status # 429

\* C9: a step that is no POST leaves the map alone; a POST changes the entry of
\* its own address (created or reset with count 1, or count + 1) and no other
\* entry, whatever its outcome; no entry is ever removed.
C9_MapFrame ==
    [][LET post == task.kind = "idle" /\ task'.kind = "handler"
                     /\ task'.req.method = "POST"
           ip == SourceAddress(task'.req)
       IN  /\ DOMAIN rateLimit \subseteq DOMAIN rateLimit'
           /\ ~post => rateLimit' = rateLimit
           /\ post =>
                 /\ ip \in DOMAIN rateLimit'
                 /\ \A k \in DOMAIN rateLimit' \ {ip} :
                       k \in DOMAIN rateLimit /\ rateLimit'[k] = rateLimit[k]
                 /\ \/ rateLimit'[ip] = [windowStart |-> task'.t1, count |-> 1]
                    \/ /\ ip \in DOMAIN rateLimit
                       /\ rateLimit'[ip] = [rateLimit[ip] EXCEPT !.count = @ + 1]
                 /\ ip \in DOMAIN rateLimit => rateLimit'[ip] # rateLimit[ip]
      ]_vars

\* A rejected request still used up a count, next to another address's entry.
C9_Witness ==
    /\ Posted
    /\ task.res = TooManyRequests
    /\ task.prior.count > RATE_LIMIT_MAX
    /\ rateLimit[Address].count = task.prior.count + 1
    /\ Cardinality(DOMAIN rateLimit) = 2

\* C10: whatever the interleaving of the suspended requests, at most
\* RATE_LIMIT_MAX POSTs of an address pass the rate-limit guard in a window;
\* a relay call is started only by a request that passed it, once, so at most
\* RATE_LIMIT_MAX relay calls are started per address and window.
C10_ExactLimit ==
    /\ \A ip \in DOMAIN audit :
          /\ audit[ip].passed <= RATE_LIMIT_MAX
          /\ audit[ip].passed = IF audit[ip].nth < RATE_LIMIT_MAX
                                THEN audit[ip].nth ELSE RATE_LIMIT_MAX
    /\ Handled /\ RelayCalled => Posted /\ ~OverQuota /\ task.calls = 1
    /\ \A p \in BagToSet(pending) : p.calls = 1

\* A fourth request is rejected while the relay calls of two earlier ones are
\* still in flight.
C10_Witness ==
    /\ Posted
    /\ task.res = TooManyRequests
    /\ audit[Address].passed = RATE_LIMIT_MAX
    /\ BagCardinality(pending) = MaxInflight
====
